---- MODULE Spec2Model ----
(***************************************************************************)
(* The swap execution engine of the AI crypto hedge fund manager: the two  *)
(* swap services (ETHUSDCSwapService, USDCETHSwapService), the two swap    *)
(* agents (EthToUsdcAgent, UsdcToEthAgent) and the ledger they talk to.    *)
(*                                                                         *)
(* A caller (an element of Procs) runs one swap call at a time; a call is  *)
(* cut into steps at its RPC round trips, so that calls of different       *)
(* callers (the agents are separate processes that share one signer key)   *)
(* interleave exactly where the code yields to the network.  The ledger    *)
(* (balances, allowances, the transaction pool, mining) is the environment.*)
(***************************************************************************)
EXTENDS Integers, Sequences, FiniteSets, TLC

VARIABLES
    txs,            \* every transaction handed to send_raw_transaction, in order
    permit2Allow,   \* on-chain USDC allowance (signer -> Permit2)
    routerAllow,    \* on-chain USDC allowance (signer -> Universal Router)
    ethBal,         \* signer's ETH balance, whole units
    usdcBal,        \* signer's USDC balance, whole units
    proc,           \* per caller: the call in progress (or the last one ended)
    calls,          \* number of calls started so far
    blockNumber,    \* web3.eth.block_number: the head of the chain
    tracker,        \* the caller polling get_transaction_status, and what it got
    quote,          \* a quote computation: its inputs and, once done, its outputs
    fees,           \* the fee parameters of one transaction being built
    cycle,          \* one analysis cycle of the main agent and its four helpers
    finder,         \* the Swapfinder agent handling one SwapRequest
    reward          \* the reward agent handling one TransactionInfo

vars == <<txs, permit2Allow, routerAllow, ethBal, usdcBal, proc, calls,
          blockNumber, tracker, quote, fees, cycle, finder, reward>>

-----------------------------------------------------------------------------
(* Bounds of the model *)

\* Width of the unsigned integers of the model; the chain's uint256 is 256
\* bits wide, which only enters the code as the value 2**256 - 1.
UintBits == 4
\* Transactions handed to the ledger in one behaviour.
MaxTxs == 3
\* Swap calls started in one behaviour of the one-caller specification.
MaxCalls == 1
\* Swap calls started in one behaviour of the two-caller specification.
MaxConcCalls == 2
\* Swap calls one caller makes one after the other while the owner of the
\* tokens alters the allowance through another channel.
MaxSeqCalls == 2
\* Largest amount a request carries (whole tokens); the smallest is -1.
MaxAmount == 2
\* Largest balance the signer holds (whole tokens).
MaxBalance == 1
\* Transaction count of the signer before the first call.
StartNonce == 0
\* Decimal places of the model's ETH and USDC base units (18 and 6 on the
\* chain); amounts keep their sign and their zero under the smaller scale.
EthDecimals == 6
UsdcDecimals == 2
\* Bits of the significand of a float (53 in a Python float): fewer than the
\* bits of one whole ETH in base units, as 53 bits are fewer than those of 10^18.
MantBits == 18
\* Status polls of one behaviour, and the block up to which the chain grows
\* by blocks that hold no transaction of the signer.
MaxPolls == 3
MaxBlock == 3

Procs == {"p1", "p2"}

MaxUint == 2^UintBits - 1

-----------------------------------------------------------------------------
(* Strings of a SwapRequest, as sequences of characters *)

LowerChar(c) ==
    CASE c = "A" -> "a" [] c = "B" -> "b" [] c = "E" -> "e" [] c = "L" -> "l"
      [] c = "S" -> "s" [] c = "U" -> "u" [] c = "Y" -> "y" [] c = "H" -> "h"
      [] c = "O" -> "o" [] c = "D" -> "d" [] c = "T" -> "t"
      [] OTHER -> c

\* str.lower()
Lower(s) == [i \in 1..Len(s) |-> LowerChar(s[i])]

Blockchains == { <<"b","a","s","e">>, <<"B","a","s","e">>, <<"B","A","S","E">>,
                 <<"e","t","h">> }
Signals == { <<"s","e","l","l">>, <<"S","E","L","L">>, <<"b","u","y">>,
             <<"B","u","y">>, <<"h","o","l","d">> }

NoStr == <<>>

-----------------------------------------------------------------------------
(* Quotes and unit conversion *)

\* int(x) of Python: truncation toward zero
TruncDiv(n, d) == IF n >= 0 THEN n \div d ELSE -((-n) \div d)

\* slippage is a fraction in the code; the model carries it in basis points
BpsDen == 10000
DefaultSlippageBps == 100
ServiceSlippages == {-5000, DefaultSlippageBps, 10000, 15000}

\* get_eth_price of both services: the import of the rate source fails, so
\* the static estimate is what the services use
ServiceEthPrice == 3000
\* the price the agents assume
AgentEthPrice == 2500
\* the agents' slippage factor 0.99, in basis points kept
AgentKeepBps == 9900

\* web3.to_wei(amount, 'ether') / int(amount * 10**18)
ToWei(amount) == amount * 10^EthDecimals
\* int(usdc_amount * 10**usdc_decimals)
ToUsdcUnits(amount) == amount * 10^UsdcDecimals

\* ETHUSDCSwapService: min_amount_out = int(eth_amount * price * (1 - slippage)
\*                                         * 10**usdc_decimals)
SvcMinUsdcOut(eth_amount, bps) ==
    TruncDiv(eth_amount * ServiceEthPrice * (BpsDen - bps),
             10^(4 - UsdcDecimals))

\* USDCETHSwapService: min_amount_out = int(usdc_amount / price * (1 - slippage)
\*                                         * 10**18)
SvcMinEthOut(usdc_amount, bps) ==
    TruncDiv(usdc_amount * (BpsDen - bps) * 10^(EthDecimals - 4), ServiceEthPrice)

\* EthToUsdcAgent: min_amount_out = int(amount * 2500.0 * 0.99 * 10**6)
AgentMinUsdcOut(amount) ==
    TruncDiv(amount * AgentEthPrice * AgentKeepBps, 10^(4 - UsdcDecimals))

\* UsdcToEthAgent: min_amount_out = int(amount / 2500.0 * 0.99 * 10**18)
AgentMinEthOut(amount) ==
    TruncDiv(amount * AgentKeepBps * 10^(EthDecimals - 4), AgentEthPrice)

\* The router codec and build_transaction encode their numbers as uint256:
\* a negative number raises before anything is sent.
EncodeRaises(amount_in, min_amount_out) == amount_in < 0 \/ min_amount_out < 0

-----------------------------------------------------------------------------
(* Python floats: binary floating point, round to nearest, ties to even.    *)
(* A non-negative float is [m, e], its value m * 2^e, with m of exactly     *)
(* MantBits bits (0 for zero).  The amounts, prices and slippages of a      *)
(* request that passed validation are non-negative.                         *)

Top == 2^MantBits
Half == 2^(MantBits - 1)
\* mantissas are multiplied in two digits of this base, within the integers'
\* range; it serves 11 <= MantBits <= 20
SplitBase == 2^10
Zero == [m |-> 0, e |-> 0]

RECURSIVE BitLen(_)
BitLen(n) == IF n = 0 THEN 0 ELSE 1 + BitLen(n \div 2)

\* rounding toward zero: the bits below are dropped
RoundDown(q, rem, half, sticky) == q

\* q or q + 1: the remainder rem against half a unit, sticky if more lies below
RoundEven(q, rem, half, sticky) ==
    IF rem > half \/ (rem = half /\ (sticky \/ q % 2 = 1)) THEN q + 1 ELSE q

\* the rounding may carry into one more bit
Carry(q, e) == IF q = Top THEN [m |-> Half, e |-> e + 1] ELSE [m |-> q, e |-> e]

\* the float nearest to n * 2^e, n a natural number
Norm(n, e) ==
    IF n = 0 THEN Zero
    ELSE LET b == BitLen(n) IN
         IF b <= MantBits
         THEN [m |-> n * 2^(MantBits - b), e |-> e - (MantBits - b)]
         ELSE LET drop == b - MantBits IN
              Carry(RoundEven(n \div 2^drop, n % 2^drop, 2^(drop - 1), FALSE),
                    e + drop)

\* float(n)
FromInt(n) == Norm(n, 0)

\* a * b
FMul(a, b) ==
    IF a.m = 0 \/ b.m = 0 THEN Zero
    ELSE LET a1 == a.m \div SplitBase
             a0 == a.m % SplitBase
             b1 == b.m \div SplitBase
             b0 == b.m % SplitBase
             t0 == a0 * b0
             t1 == a1 * b0 + a0 * b1 + (t0 \div SplitBase)
             hi == a1 * b1 + (t1 \div SplitBase)
             lo == (t1 % SplitBase) * SplitBase + (t0 % SplitBase)
             drop == BitLen(hi) + 20 - MantBits
             q == hi * 2^(20 - drop) + (lo \div 2^drop)
         IN  Carry(RoundEven(q, lo % 2^drop, 2^(drop - 1), FALSE),
                   a.e + b.e + drop)

\* k more bits of the quotient of r / d, after the bits q
RECURSIVE LongDiv(_, _, _, _)
LongDiv(q, r, d, k) ==
    IF k = 0 THEN <<q, r>>
    ELSE IF 2 * r >= d THEN LongDiv(2 * q + 1, 2 * r - d, d, k - 1)
         ELSE LongDiv(2 * q, 2 * r, d, k - 1)

\* a / b, b # 0
FDiv(a, b) ==
    IF a.m = 0 THEN Zero
    ELSE LET qr == LongDiv(a.m \div b.m, a.m % b.m, b.m, MantBits + 1)
             drop == BitLen(qr[1]) - MantBits
         IN  Carry(RoundEven(qr[1] \div 2^drop, qr[1] % 2^drop, 2^(drop - 1),
                             qr[2] # 0),
                   a.e - b.e - (MantBits + 1) + drop)

\* a - b, a >= b
FSub(a, b) ==
    IF b.m = 0 THEN a
    ELSE LET e == IF a.e < b.e THEN a.e ELSE b.e
         IN  Norm(a.m * 2^(a.e - e) - b.m * 2^(b.e - e), e)

\* int(a): truncation
ToInt(a) ==
    IF a.e >= 0 THEN a.m * 2^a.e
    ELSE IF 0 - a.e > 30 THEN 0 ELSE a.m \div 2^(0 - a.e)

\* the float a decimal literal n/d denotes
FromDecimal(n, d) == FDiv(FromInt(n), FromInt(d))

One == FromInt(1)

-----------------------------------------------------------------------------
(* The ledger *)

Approvals == {"approve_permit2", "approve_router"}
Mined == {"success", "reverted"}

TxIds == DOMAIN txs

\* get_transaction_count(address): transactions of the signer already mined
LatestCount == StartNonce + Cardinality({i \in TxIds : txs[i].status \in Mined})
\* get_transaction_count(address, 'pending'): mined and pooled
PendingCount == LatestCount + Cardinality({i \in TxIds : txs[i].status = "pending"})

\* The pooled transaction carrying nonce n, if any (0 if none)
PooledWith(n) ==
    IF \E i \in TxIds : txs[i].status = "pending" /\ txs[i].nonce = n
    THEN CHOOSE i \in TxIds : txs[i].status = "pending" /\ txs[i].nonce = n
    ELSE 0

\* The pool after the node accepted tx: a pooled transaction of the same nonce
\* is replaced (dropped), the new one is pooled.
PoolAccept(tx) ==
    LET old == PooledWith(tx.nonce)
        kept == IF old = 0 THEN txs ELSE [txs EXCEPT ![old].status = "dropped"]
    IN  Append(kept, tx)

-----------------------------------------------------------------------------
(* Callers and their calls *)

Services == {"svc_eth", "svc_usdc"}      \* ETHUSDCSwapService, USDCETHSwapService
Agents   == {"agent_eth", "agent_usdc"}  \* EthToUsdcAgent, UsdcToEthAgent
Entries  == Services \cup Agents

Amounts == (-1)..MaxAmount

Unread == 0 - 1

\* No status poll and no quote computation under way
NotTracking == [pc |-> "idle", tx |-> 0, receipt |-> <<>>, results |-> <<>>]
NoQuote == [pc |-> "none"]
\* No fee computation under way, and no analysis cycle
NoFees == [pc |-> "none"]
NoCycle == [pc |-> "none"]
\* No request at the Swapfinder agent, no message at the reward agent
NoFinder == [pc |-> "none"]
NoReward == [pc |-> "none"]

Idle ==
    [pc |-> "idle", entry |-> "none", call |-> 0, amount |-> 0, bps |-> 0,
     wfa |-> TRUE, blockchain |-> NoStr, signal |-> NoStr, nonce |-> 0,
     approval |-> 0, wait |-> 0, io |-> FALSE, seen |-> Unread,
     status |-> "none", err |-> "none", hash |-> 0, responses |-> <<>>,
     result |-> <<>>, steps |-> <<>>, exc |-> "none", failhash |-> 0]

Init ==
    /\ txs = <<>>
    /\ permit2Allow \in {0, MaxUint - 1, MaxUint}
    /\ routerAllow \in {0, MaxUint}
    /\ ethBal \in {0, MaxBalance}
    /\ usdcBal \in {0, MaxBalance}
    /\ proc = [p \in Procs |-> Idle]
    /\ calls = 0
    /\ blockNumber = 0
    /\ tracker = NotTracking
    /\ quote = NoQuote
    /\ fees = NoFees
    /\ cycle = NoCycle
    /\ finder = NoFinder
    /\ reward = NoReward

Ledger == <<txs, permit2Allow, routerAllow, ethBal, usdcBal, blockNumber>>

\* The state of the status poller, of the quote and fee calculations and of
\* the analysis cycle, which no step of a swap call touches
Readers == <<tracker, quote, fees, cycle, finder, reward>>

\* The call has gone through the step s of a swap function
Did(c, s) == [c EXCEPT !.steps = Append(@, s)]

\* A swap function raises: whatever was raised inside the try block, the
\* except branch raises BlockchainError(f"Failed to swap ...: {e}")
Raised(c, err) ==
    [c EXCEPT !.pc = "done", !.status = "error", !.err = err,
              !.exc = "BlockchainError"]

\* SwapResponse handed to BaseAgent.send_message; delivered = ctx.send succeeded
Response(status, err, hash, delivered) ==
    [status |-> status, err |-> err, hash |-> hash, delivered |-> delivered]

\* The except branch of handle_swap_request: one error response, whose own
\* failure leaves the handler
ErrorReply(c, err, d) ==
    [c EXCEPT !.pc = "done",
              !.responses = Append(@, Response("error", err, 0, d))]

\* A handler reply sent inside the try block: if ctx.send fails, send_message
\* raises CommunicationError and the except branch sends an error response
Reply(c, r, d2) ==
    IF r.delivered
    THEN [c EXCEPT !.pc = "done", !.responses = Append(@, r)]
    ELSE ErrorReply([c EXCEPT !.responses = Append(@, r)], "communication", d2)

\* Failure of a call at a step: a service raises BlockchainError, an agent's
\* swap function raises it and the handler answers with an error response
Failed(c, err, d) ==
    IF c.entry \in Services THEN Raised(c, err)
    ELSE ErrorReply(Raised(c, err), err, d)

Base == <<"b","a","s","e">>
\* the signal an agent serves
OwnSignal(entry) == IF entry = "agent_eth" THEN <<"s","e","l","l">> ELSE <<"b","u","y">>

\* a request check that compares the strings as they are spelled
UnsupportedCaseSensitive(entry, blockchain, signal) ==
    blockchain # Base \/ signal # OwnSignal(entry)

\* handle_swap_request, "Validate request"
Unsupported(entry, blockchain, signal) ==
    Lower(blockchain) # Base \/ Lower(signal) # OwnSignal(entry)

\* The (blockchain, signal) pairs of the agents' requests
Heads == { <<Base, <<"s","e","l","l">> >>, <<Base, <<"b","u","y">> >>,
           << <<"B","A","S","E">>, <<"S","E","L","L">> >>,
           << <<"B","a","s","e">>, <<"B","u","y">> >>,
           << <<"e","t","h">>, <<"s","e","l","l">> >>,
           << <<"e","t","h">>, <<"B","U","Y">> >>,
           <<Base, <<"h","o","l","d">> >> }

Request(e, a, b, w, h) ==
    [Idle EXCEPT !.pc = IF e \in Services THEN "validate" ELSE "handle",
                 !.entry = e, !.amount = a, !.bps = b, !.wfa = w,
                 !.blockchain = h[1], !.signal = h[2]]

\* Every request of the input range
AllRequests ==
    {Request("svc_eth", a, b, TRUE, <<NoStr, NoStr>>) :
        a \in Amounts, b \in ServiceSlippages}
    \cup {Request("svc_usdc", a, b, w, <<NoStr, NoStr>>) :
        a \in Amounts, b \in ServiceSlippages, w \in BOOLEAN}
    \cup {Request(e, a, 0, TRUE, h) : e \in Agents, a \in Amounts, h \in Heads}

\* The requests of the concurrent specification: one unit, default slippage,
\* a (blockchain, signal) pair the agent serves
WellFormed(r) ==
    /\ r.amount = 1
    /\ r.bps \in {0, DefaultSlippageBps}
    /\ r.wfa
    /\ r.entry \in Agents => r.blockchain = Base /\ r.signal = OwnSignal(r.entry)

WellFormedRequests == {r \in AllRequests : WellFormed(r)}

\* A new call, drawn from the requests R, arrives at caller p; at most n calls
\* arrive in one behaviour
Start(p, R, n) ==
    /\ proc[p].pc \in {"idle", "done"}
    /\ calls < n
    /\ calls' = calls + 1
    /\ \E r \in R : proc' = [proc EXCEPT ![p] = [r EXCEPT !.call = calls']]
    /\ UNCHANGED <<Ledger, Readers>>

\* swap_eth_to_usdc / swap_usdc_to_eth of the services: "Validate inputs"
SvcValidate(p) ==
    LET c == proc[p] IN
    /\ c.pc = "validate"
    /\ proc' = [proc EXCEPT ![p] =
                  IF c.amount <= 0 THEN Raised(c, "amount")
                  ELSE Did([c EXCEPT !.pc = "balance"], "validate")]
    /\ UNCHANGED <<Ledger, calls, Readers>>

\* The quote and the encoding of the swap call of a service: local computation
SvcQuote(c) ==
    LET min_out == IF c.entry = "svc_eth" THEN SvcMinUsdcOut(c.amount, c.bps)
                   ELSE SvcMinEthOut(c.amount, c.bps)
        amount_in == IF c.entry = "svc_eth" THEN ToWei(c.amount)
                     ELSE ToUsdcUnits(c.amount)
        q == Did(c, "quote")
    IN  IF EncodeRaises(amount_in, min_out) THEN Raised(q, "encode")
        ELSE Did([q EXCEPT !.pc = "nonce"], "build")

\* get_eth_balance / get_usdc_balance and the balance check of the services
SvcBalance(p) ==
    LET c == [proc[p] EXCEPT !.io = TRUE]
        balance == IF c.entry = "svc_eth" THEN ethBal ELSE usdcBal
        b == Did(c, "balance")
    IN
    /\ proc[p].pc = "balance"
    /\ proc' = [proc EXCEPT ![p] =
                  IF c.amount > balance THEN Raised(c, "insufficient")
                  ELSE IF c.entry = "svc_eth" THEN SvcQuote(b)
                  ELSE [b EXCEPT !.pc = "allow"]]
    /\ UNCHANGED <<Ledger, calls, Readers>>

-----------------------------------------------------------------------------
(* The agents' message handler *)

\* handle_swap_request up to the first RPC of the swap function
AgentHandle(p) ==
    LET c == proc[p] IN
    /\ c.pc = "handle"
    /\ \E d1, d2 \in BOOLEAN :
         proc' = [proc EXCEPT ![p] =
            IF Unsupported(c.entry, c.blockchain, c.signal)
            THEN Reply(c, Response("error", "unsupported", 0, d1), d2)
            ELSE IF c.entry = "agent_usdc" THEN [c EXCEPT !.pc = "allow"]
            ELSE IF EncodeRaises(ToWei(c.amount), AgentMinUsdcOut(c.amount))
                 THEN Failed(Did(c, "quote"), "encode", d1)
                 ELSE Did(Did([c EXCEPT !.pc = "nonce"], "quote"), "build")]
    /\ UNCHANGED <<Ledger, calls, Readers>>

-----------------------------------------------------------------------------
(* ensure_permit2_approval and the steps that build and send transactions *)

permit2_allowance_needed == MaxUint

\* the decision of ensure_permit2_approval on the allowance it read
AlreadyApproved(current_allowance) == current_allowance >= permit2_allowance_needed

\* an allowance kept from the signer's last confirmed approval instead of
\* read from the chain
remembered_allowance ==
    IF \E i \in TxIds : txs[i].kind = "approve_permit2" /\ txs[i].status = "success"
    THEN permit2_allowance_needed ELSE permit2Allow

\* usdc_contract.functions.allowance(account, permit2).call()
current_allowance == permit2Allow

\* The agent's swap function between ensure_permit2_approval and the nonce
\* of the router approval: the amounts of the swap are computed
AgentQuote(c) == Did([c EXCEPT !.pc = "rnonce"], "quote")

\* allowance(owner, permit2).call() and the decision on it
ReadAllowance(p) ==
    LET c == Did([proc[p] EXCEPT !.io = TRUE, !.seen = current_allowance],
                 "allowance")
    IN
    /\ proc[p].pc = "allow"
    /\ proc' = [proc EXCEPT ![p] =
                  IF ~AlreadyApproved(c.seen) THEN [c EXCEPT !.pc = "apnonce"]
                  ELSE IF c.entry = "svc_usdc" THEN SvcQuote(c)
                  ELSE AgentQuote(c)]
    /\ UNCHANGED <<Ledger, calls, Readers>>

\* the block identifier a code path passes to get_transaction_count
UsesPendingCount(entry) == entry \in {"svc_usdc", "agent_usdc"}

NonceFor(entry) == IF UsesPendingCount(entry) THEN PendingCount ELSE LatestCount

\* get_transaction_count (with the fee queries that follow it) before a build
ReadNonce(p) ==
    LET c == [proc[p] EXCEPT !.io = TRUE, !.nonce = NonceFor(proc[p].entry)] IN
    /\ proc[p].pc \in {"apnonce", "rnonce", "nonce"}
    /\ \E d \in BOOLEAN :
         proc' = [proc EXCEPT ![p] =
            CASE c.pc = "apnonce" -> [c EXCEPT !.pc = "apsend"]
              [] c.pc = "rnonce" ->
                   \* approve(router, amount_in_usdc).build_transaction
                   IF EncodeRaises(ToUsdcUnits(c.amount), 0)
                   THEN Failed(c, "encode", d)
                   ELSE [c EXCEPT !.pc = "rsend"]
              [] OTHER -> [c EXCEPT !.pc = "send"]]
    /\ UNCHANGED <<Ledger, calls, Readers>>

\* the two commands of a swap chained the other way round
encoded_input_reversed(entry) ==
    IF entry \in {"svc_eth", "agent_eth"}
    THEN << [op |-> "v2_swap_exact_in", path |-> <<"WETH", "USDC">>],
            [op |-> "wrap_eth", path |-> <<>>] >>
    ELSE << [op |-> "unwrap_weth", path |-> <<>>],
            [op |-> "v2_swap_exact_in", path |-> <<"USDC", "WETH">>] >>

\* The commands the router codec chains into the data of a swap: selling ETH
\* wraps it and swaps WETH for USDC, buying ETH swaps USDC for WETH and
\* unwraps it
encoded_input(entry) ==
    IF entry \in {"svc_eth", "agent_eth"}
    THEN << [op |-> "wrap_eth", path |-> <<>>],
            [op |-> "v2_swap_exact_in", path |-> <<"WETH", "USDC">>] >>
    ELSE << [op |-> "v2_swap_exact_in", path |-> <<"USDC", "WETH">>],
            [op |-> "unwrap_weth", path |-> <<>>] >>

\* The transaction a call is about to sign and send
BuiltTx(c) ==
    [kind   |-> CASE c.pc = "apsend" -> "approve_permit2"
                  [] c.pc = "rsend" -> "approve_router"
                  [] OTHER -> "swap",
     nonce  |-> c.nonce,
     call   |-> c.call,
     entry  |-> c.entry,
     status |-> "pending",
     \* receipt.blockNumber and receipt.gasUsed, once mined
     block  |-> 0,
     gas    |-> 0,
     \* "data" of a swap (the approvals call the token contract) and "value"
     data   |-> IF c.pc \in {"apsend", "rsend"} THEN <<>> ELSE encoded_input(c.entry),
     value  |-> IF c.pc = "send" /\ c.entry \in {"svc_eth", "agent_eth"}
                THEN ToWei(c.amount) ELSE 0,
     amount |-> CASE c.pc = "apsend" -> permit2_allowance_needed
                  [] c.pc = "rsend" -> ToUsdcUnits(c.amount)
                  [] OTHER -> IF c.entry \in {"svc_eth", "agent_eth"}
                              THEN ToWei(c.amount) ELSE ToUsdcUnits(c.amount),
     \* the allowance for the approved spender this call has read (Unread: none)
     seen   |-> IF c.pc = "apsend" THEN c.seen ELSE Unread]

\* The dict a service returns once the swap is sent (the amounts of the
\* quote in base units of the token bought)
ReturnedDict(c, h) ==
    IF c.entry = "svc_eth"
    THEN [transaction_hash |-> h,
          eth_amount |-> c.amount,
          \* min_usdc_output / (1 - slippage): the estimate again
          estimated_usdc |-> SvcMinUsdcOut(c.amount, 0),
          min_usdc_output |-> SvcMinUsdcOut(c.amount, c.bps),
          status |-> "pending"]
    ELSE [transaction_hash |-> h,
          approval_hash |-> c.approval,
          usdc_amount |-> c.amount,
          \* min_eth_output / (1 - slippage): the estimate again
          estimated_eth |-> SvcMinEthOut(c.amount, 0),
          min_eth_output |-> SvcMinEthOut(c.amount, c.bps),
          status |-> "pending"]

\* What a call does once send_raw_transaction returned the hash h
AfterSend(c, h, d1, d2) ==
    CASE c.pc = "apsend" ->
           Did([c EXCEPT !.pc = "apwait", !.approval = h, !.wait = h], "approve")
      [] c.pc = "rsend" -> Did([c EXCEPT !.pc = "rwait", !.wait = h], "approve")
      [] c.entry \in Services ->
           \* the returned dict divides by (1 - slippage)
           IF c.bps = BpsDen THEN Raised(Did(c, "submit"), "zerodiv")
           ELSE Did([c EXCEPT !.pc = "done", !.status = "pending", !.hash = h,
                              !.result = ReturnedDict(c, h)], "submit")
      [] OTHER ->
           Reply(Did([c EXCEPT !.status = "hash", !.hash = h], "submit"),
                 Response("success", "none", h, d1), d2)

\* sign_transaction and send_raw_transaction: the node pools the transaction
\* (replacing a pooled one of the same nonce) or refuses it; a nonce already
\* mined is always refused
Send(p) ==
    LET c == [proc[p] EXCEPT !.io = TRUE] IN
    /\ proc[p].pc \in {"apsend", "rsend", "send"}
    /\ \E d1, d2 \in BOOLEAN :
         \/ /\ c.nonce >= LatestCount
            /\ Len(txs) < MaxTxs
            /\ txs' = PoolAccept(BuiltTx(c))
            /\ proc' = [proc EXCEPT ![p] = AfterSend(c, Len(txs) + 1, d1, d2)]
         \/ /\ txs' = txs
            /\ proc' = [proc EXCEPT ![p] =
                  Failed(c, IF c.pc = "apsend" THEN "approve" ELSE "send", d1)]
    /\ UNCHANGED <<permit2Allow, routerAllow, ethBal, usdcBal, blockNumber, calls, Readers>>

\* What a call does once wait_for_transaction_receipt returned a receipt
AfterReceipt(c, d) ==
    LET w == Did(c, "approved") IN
    CASE c.pc = "apwait" /\ c.entry = "svc_usdc" ->
           \* if approval_tx and wait_for_approval: the service waits for the
           \* receipt once more
           IF c.wfa THEN [w EXCEPT !.pc = "apwait2"] ELSE SvcQuote(w)
      [] c.pc = "apwait2" -> SvcQuote(c)
      [] c.pc = "apwait" -> AgentQuote(w)
      [] OTHER ->
           IF EncodeRaises(ToUsdcUnits(c.amount), AgentMinEthOut(c.amount))
           THEN Failed(w, "encode", d)
           ELSE Did([w EXCEPT !.pc = "nonce"], "build")

\* wait_for_transaction_receipt(tx_hash, timeout=120) returns the receipt of a
\* mined transaction, whatever its status
WaitReceipt(p) ==
    LET c == [proc[p] EXCEPT !.io = TRUE] IN
    /\ proc[p].pc \in {"apwait", "apwait2", "rwait"}
    /\ txs[c.wait].status \in Mined
    /\ \E d \in BOOLEAN : proc' = [proc EXCEPT ![p] = AfterReceipt(c, d)]
    /\ UNCHANGED <<Ledger, calls, Readers>>

\* wait_for_transaction_receipt raises TimeExhausted: nothing mined in 120 s.
\* The text of TimeExhausted names the transaction hash, and every except
\* branch on the way up keeps the text of what it caught.
WaitTimeout(p) ==
    LET c == [proc[p] EXCEPT !.io = TRUE, !.failhash = proc[p].wait] IN
    /\ proc[p].pc \in {"apwait", "rwait"}
    /\ txs[c.wait].status \notin Mined
    /\ \E d \in BOOLEAN :
         proc' = [proc EXCEPT ![p] =
            Failed(c, IF c.pc = "apwait" THEN "approve" ELSE "timeout", d)]
    /\ UNCHANGED <<Ledger, calls, Readers>>

\* A read RPC fails (transport error)
RpcFail(p) ==
    LET c == [proc[p] EXCEPT !.io = TRUE]
        inEnsure == \/ c.pc \in {"apnonce", "apwait"}
                    \/ c.pc = "allow" /\ c.entry = "svc_usdc"
    IN
    /\ proc[p].pc \in {"balance", "allow", "apnonce", "rnonce", "nonce",
                       "apwait", "apwait2", "rwait"}
    /\ \E d \in BOOLEAN :
         proc' = [proc EXCEPT ![p] =
            Failed(c, IF inEnsure THEN "approve" ELSE "transport", d)]
    /\ UNCHANGED <<Ledger, calls, Readers>>

-----------------------------------------------------------------------------
(* The chain *)

\* The gas limit a transaction is built with ("gas" of its parameters)
ApproveGas == 100000
RouterApproveGas == 250000
SwapGas == 500000

GasLimit(kind) ==
    CASE kind = "approve_permit2" -> ApproveGas
      [] kind = "approve_router" -> RouterApproveGas
      [] OTHER -> SwapGas

\* The pooled transaction i is mined in a new block, with a success or a
\* reverted receipt.  The receipt's gasUsed is some amount up to the gas limit
\* of the transaction; the model takes the limit, the code only passes the
\* number on.
Mine(i) ==
    /\ i \in TxIds
    /\ txs[i].status = "pending"
    /\ txs[i].nonce = LatestCount
    /\ blockNumber' = blockNumber + 1
    /\ \E st \in Mined :
         /\ txs' = [txs EXCEPT ![i].status = st, ![i].block = blockNumber',
                               ![i].gas = GasLimit(txs[i].kind)]
         /\ permit2Allow' = IF st = "success" /\ txs[i].kind = "approve_permit2"
                            THEN txs[i].amount ELSE permit2Allow
         /\ routerAllow' = IF st = "success" /\ txs[i].kind = "approve_router"
                           THEN txs[i].amount ELSE routerAllow
    /\ UNCHANGED <<ethBal, usdcBal, proc, calls, Readers>>

\* The steps of the call in progress at caller p
Step(p) ==
    \/ SvcValidate(p)
    \/ SvcBalance(p)
    \/ AgentHandle(p)
    \/ ReadAllowance(p)
    \/ ReadNonce(p)
    \/ Send(p)
    \/ WaitReceipt(p)
    \/ WaitTimeout(p)
    \/ RpcFail(p)

\* One caller, one call after the other, every request of the input range
Next ==
    \/ Start("p1", AllRequests, MaxCalls)
    \/ Step("p1")
    \/ \E i \in 1..MaxTxs : Mine(i)

Spec == Init /\ [][Next]_vars

\* Two callers sharing the signer (two agent processes, two threads of a
\* service), their calls interleaved at the RPC round trips
NextConc ==
    \/ \E p \in Procs : Start(p, WellFormedRequests, MaxConcCalls)
    \/ \E p \in Procs : Step(p)
    \/ \E i \in 1..MaxTxs : Mine(i)

SpecConc == Init /\ [][NextConc]_vars

\* The owner of the tokens grants or revokes the Permit2 allowance through
\* another channel (a wallet, another program holding the key)
OwnerSetsAllowance ==
    /\ \E a \in {0, MaxUint} : a # permit2Allow /\ permit2Allow' = a
    /\ UNCHANGED <<txs, routerAllow, ethBal, usdcBal, blockNumber, proc, calls,
                   Readers>>

\* The requests that reach ensure_permit2_approval
UsdcRequests == {r \in WellFormedRequests : r.entry \in {"svc_usdc", "agent_usdc"}}

\* A signer that holds the tokens it sells
InitAllow ==
    /\ Init
    /\ ethBal = MaxBalance
    /\ usdcBal = MaxBalance

\* One caller buying ETH several times, the allowance altered in between
NextAllow ==
    \/ Start("p1", UsdcRequests, MaxSeqCalls)
    \/ Step("p1")
    \/ \E i \in 1..MaxTxs : Mine(i)
    \/ OwnerSetsAllowance

SpecAllow == InitAllow /\ [][NextAllow]_vars

\* A call of get_usdc_to_eth_quote arrives at caller p
StartQuote(p) ==
    /\ proc[p].pc \in {"idle", "done"}
    /\ calls < MaxSeqCalls
    /\ calls' = calls + 1
    /\ proc' = [proc EXCEPT ![p] =
          [Idle EXCEPT !.pc = "getquote", !.entry = "svc_usdc_quote",
                       !.amount = 1, !.bps = DefaultSlippageBps,
                       !.call = calls']]
    /\ UNCHANGED <<Ledger, Readers>>

\* "Check permit2 approval status" of the quote
is_approved(allowance) == allowance > 0

\* get_usdc_to_eth_quote: the balances and the allowance are read and the
\* dict is returned, or a read raises and BlockchainError is raised
get_usdc_to_eth_quote(p) ==
    LET c == [proc[p] EXCEPT !.io = TRUE] IN
    /\ proc[p].pc = "getquote"
    /\ \E raised \in BOOLEAN :
         proc' = [proc EXCEPT ![p] =
            IF raised THEN Raised(c, "transport")
            ELSE [c EXCEPT
                    !.pc = "done",
                    !.status = "quoted",
                    !.seen = current_allowance,
                    !.result = [usdc_amount |-> c.amount,
                                min_eth_output |-> SvcMinEthOut(c.amount, c.bps),
                                has_sufficient_balance |-> c.amount <= usdcBal,
                                is_approved |-> is_approved(current_allowance),
                                usdc_balance |-> usdcBal,
                                eth_balance |-> ethBal]]]
    /\ UNCHANGED <<Ledger, calls, Readers>>

\* One caller asks for quotes, another one swaps once the quote is there;
\* the owner may alter the allowance at any time
NextPreview ==
    \/ StartQuote("p1")
    \/ get_usdc_to_eth_quote("p1")
    \/ proc["p1"].pc # "getquote" /\ Start("p2", UsdcRequests, MaxSeqCalls)
    \/ Step("p2")
    \/ \E i \in 1..MaxTxs : Mine(i)
    \/ OwnerSetsAllowance

SpecPreview == InitAllow /\ [][NextPreview]_vars

-----------------------------------------------------------------------------
(* get_transaction_status: the caller polls the status of one transaction *)

\* web3.eth.get_transaction_receipt(tx_hash) of a mined transaction
ReceiptOf(i) ==
    [status |-> IF txs[i].status = "success" THEN 1 ELSE 0,
     blockNumber |-> txs[i].block,
     gasUsed |-> txs[i].gas]

NoReceipt == <<>>

\* a status that reports a failure only once the receipt has a confirmation
StatusByConfirmations(receipt_status, confirmations) ==
    IF confirmations >= 1
    THEN IF receipt_status = 1 THEN "confirmed" ELSE "failed"
    ELSE "pending_confirmation"

\* a status that reports a confirmation at exactly one confirmation
StatusAtOneConfirmation(receipt_status, confirmations) ==
    IF receipt_status = 1
    THEN IF confirmations = 1 THEN "confirmed" ELSE "pending_confirmation"
    ELSE "failed"

\* the status get_transaction_status derives from a receipt
TrackerStatus(receipt_status, confirmations) ==
    IF receipt_status = 1
    THEN IF confirmations >= 1 THEN "confirmed" ELSE "pending_confirmation"
    ELSE "failed"

\* One call of get_transaction_status as the caller saw it: the receipt and
\* the block number it read, and the dict returned (raised: BlockchainError)
Polled(i, receipt, head, raised, ret) ==
    [tx |-> i, receipt |-> receipt, head |-> head, raised |-> raised, ret |-> ret]

\* get_transaction_receipt.  Without a receipt the call returns None, which
\* the function answers with 'pending', or raises TransactionNotFound (web3
\* from version 5 on; setup.py asks for web3 >= 6.4.0), which the except
\* branch turns into BlockchainError.
GetReceipt(i) ==
    /\ tracker.pc = "idle"
    /\ Len(tracker.results) < MaxPolls
    /\ i \in TxIds
    /\ tracker.tx \in {0, i}
    /\ IF txs[i].status \in Mined
       THEN tracker' = [tracker EXCEPT !.pc = "block", !.tx = i,
                                       !.receipt = ReceiptOf(i)]
       ELSE \E raised \in BOOLEAN :
              tracker' = [tracker EXCEPT
                 !.tx = i,
                 !.results = Append(@,
                    Polled(i, NoReceipt, Unread, raised,
                           IF raised THEN <<>>
                           ELSE [status |-> "pending", confirmations |-> 0]))]
    /\ UNCHANGED <<Ledger, proc, calls, quote, fees, cycle, finder, reward>>

\* web3.eth.block_number, the confirmations and the returned dict
GetBlockNumber ==
    LET receipt == tracker.receipt
        current_block == blockNumber
        confirmations == current_block - receipt.blockNumber
    IN
    /\ tracker.pc = "block"
    /\ tracker' = [tracker EXCEPT
          !.pc = "idle",
          !.receipt = NoReceipt,
          !.results = Append(@,
             Polled(tracker.tx, receipt, current_block, FALSE,
                    [status |-> TrackerStatus(receipt.status, confirmations),
                     confirmations |-> confirmations,
                     transaction_hash |-> tracker.tx,
                     block_number |-> receipt.blockNumber,
                     gas_used |-> receipt.gasUsed]))]
    /\ UNCHANGED <<Ledger, proc, calls, quote, fees, cycle, finder, reward>>

\* The chain grows by a block that holds no transaction of the signer
AdvanceBlock ==
    /\ blockNumber < MaxBlock
    /\ blockNumber' = blockNumber + 1
    /\ UNCHANGED <<txs, permit2Allow, routerAllow, ethBal, usdcBal, proc, calls,
                   Readers>>

\* A signer that holds both tokens and has granted no allowance yet
InitTrack ==
    /\ Init
    /\ permit2Allow = 0
    /\ routerAllow = 0
    /\ ethBal = MaxBalance
    /\ usdcBal = MaxBalance

\* One well-formed swap call, the chain, and the status polls of one of the
\* call's transactions
NextTrack ==
    \/ Start("p1", WellFormedRequests, 1)
    \/ Step("p1")
    \/ \E i \in 1..MaxTxs : Mine(i)
    \/ AdvanceBlock
    \/ \E i \in 1..MaxTxs : GetReceipt(i)
    \/ GetBlockNumber

SpecTrack == InitTrack /\ [][NextTrack]_vars

-----------------------------------------------------------------------------
(* The quote of a swap: estimated output, minimum output, base units *)

\* get_eth_price of the services: the rate source cannot be imported, the
\* except branch returns the static estimate
get_eth_price == FromInt(ServiceEthPrice)

\* ETHUSDCSwapService.estimate_usdc_output at the price eth_price
estimate_usdc_output(eth_amount, eth_price, slippage) ==
    LET estimated_usdc == FMul(eth_amount, eth_price) IN
    [est |-> estimated_usdc, min |-> FMul(estimated_usdc, FSub(One, slippage))]

\* USDCETHSwapService.estimate_eth_output at the price eth_price
estimate_eth_output(usdc_amount, eth_price, slippage) ==
    LET estimated_eth == FDiv(usdc_amount, eth_price) IN
    [est |-> estimated_eth, min |-> FMul(estimated_eth, FSub(One, slippage))]

\* web3.to_wei(n/d, 'ether'): decimal arithmetic on the number as written
to_wei(n, d) == (n * 10^EthDecimals) \div d

\* int(x * 10**decimals)
ToUnits(x, decimals) == ToInt(FMul(x, FromInt(10^decimals)))

\* the decimals of the token a code path pays with, and of the one it buys
SellsEth(entry) == entry \in {"svc_eth", "agent_eth"}
DecimalsIn(entry) == IF SellsEth(entry) THEN EthDecimals ELSE UsdcDecimals
DecimalsOut(entry) == IF SellsEth(entry) THEN UsdcDecimals ELSE EthDecimals

\* Amounts n/d of a valid request, in whole tokens, and slippages in basis
\* points (the float handed to the service is bps / 10000)
\* (the USDC amounts a float holds to the base unit stay below 2^53 / 10^6
\* whole tokens, in the model below 2^MantBits / 10^UsdcDecimals)
EthAmounts == {<<1, 1000000>>, <<1, 10000>>, <<1, 10>>, <<1, 2>>, <<51, 100>>,
               <<7, 10>>}
UsdcAmounts == {<<1, 10000>>, <<1, 10>>, <<3, 10>>, <<1, 2>>, <<1, 1>>, <<3, 1>>,
                <<10, 1>>,
                <<100, 1>>, <<1000, 1>>, <<3000, 1>>, <<100000, 1>>}
QuoteSlippages == {0, 50, DefaultSlippageBps, 5000, 9999}

QuoteRequest(entry, amount, bps) ==
    [pc |-> "in", entry |-> entry, amount |-> amount, bps |-> bps,
     est |-> Zero, min |-> Zero, amount_in |-> 0, min_amount_out |-> 0,
     \* of the swap transaction: "value", the amount of wrap_eth (0: no wrap)
     \* and the amount_in of v2_swap_exact_in
     value |-> 0, wrapped |-> 0, exchange_in |-> 0]

QuoteRequests ==
    {QuoteRequest(e, a, b) :
        e \in Services, a \in EthAmounts \cup UsdcAmounts, b \in QuoteSlippages}
    \cup {QuoteRequest(e, a, DefaultSlippageBps) :
             e \in Agents, a \in EthAmounts \cup UsdcAmounts}

\* The quotes of requests that pass validation: a positive amount of the
\* token the code path sells
InitQuote ==
    /\ txs = <<>>
    /\ permit2Allow = 0
    /\ routerAllow = 0
    /\ ethBal = 0
    /\ usdcBal = 0
    /\ proc = [p \in Procs |-> Idle]
    /\ calls = 0
    /\ blockNumber = 0
    /\ tracker = NotTracking
    /\ fees = NoFees
    /\ cycle = NoCycle
    /\ finder = NoFinder
    /\ reward = NoReward
    /\ quote \in {q \in QuoteRequests :
                    q.amount \in IF SellsEth(q.entry) THEN EthAmounts ELSE UsdcAmounts}

\* The services: amount in base units, then estimate_*_output
SvcEstimate ==
    LET amount == FromDecimal(quote.amount[1], quote.amount[2])
        slippage == FromDecimal(quote.bps, BpsDen)
        o == IF quote.entry = "svc_eth"
             THEN estimate_usdc_output(amount, get_eth_price, slippage)
             ELSE estimate_eth_output(amount, get_eth_price, slippage)
    IN
    /\ quote.pc = "in"
    /\ quote.entry \in Services
    /\ quote' = [quote EXCEPT
          !.pc = "estimated",
          !.amount_in = IF quote.entry = "svc_eth"
                        THEN to_wei(quote.amount[1], quote.amount[2])
                        ELSE ToUnits(amount, UsdcDecimals),
          !.est = o.est,
          !.min = o.min]
    /\ UNCHANGED <<Ledger, proc, calls, tracker, fees, cycle, finder, reward>>

\* The amounts a swap function puts into the transaction: selling ETH, the
\* amount in wei is the value, the wrapped amount and the input of the
\* exchange; buying ETH, the value is 0 and nothing is wrapped
WithSwapAmounts(q, amount_in) ==
    [q EXCEPT !.value = IF SellsEth(q.entry) THEN amount_in ELSE 0,
              !.wrapped = IF SellsEth(q.entry) THEN amount_in ELSE 0,
              !.exchange_in = amount_in]

\* The services: min_amount_out = int(min_output * 10**decimals), and the
\* encoding of the swap
SvcMinAmountOut ==
    /\ quote.pc = "estimated"
    /\ quote' = WithSwapAmounts(
          [quote EXCEPT
             !.pc = "out",
             !.min_amount_out = ToUnits(quote.min, DecimalsOut(quote.entry))],
          quote.amount_in)
    /\ UNCHANGED <<Ledger, proc, calls, tracker, fees, cycle, finder, reward>>

\* The agents: amount in base units, estimated amount at the assumed price,
\* min_amount_out = int(estimated * 0.99 * 10**decimals)
AgentAmountsOut ==
    LET amount == FromDecimal(quote.amount[1], quote.amount[2])
        est == IF quote.entry = "agent_eth"
               THEN FMul(amount, FromInt(AgentEthPrice))
               ELSE FDiv(amount, FromInt(AgentEthPrice))
        min == FMul(est, FromDecimal(AgentKeepBps, BpsDen))
    IN
    /\ quote.pc = "in"
    /\ quote.entry \in Agents
    /\ quote' = WithSwapAmounts(
          [quote EXCEPT
             !.pc = "out",
             !.amount_in = ToUnits(amount, DecimalsIn(quote.entry)),
             !.est = est,
             !.min = min,
             !.min_amount_out = ToUnits(min, DecimalsOut(quote.entry))],
          ToUnits(amount, DecimalsIn(quote.entry)))
    /\ UNCHANGED <<Ledger, proc, calls, tracker, fees, cycle, finder, reward>>

NextQuote == SvcEstimate \/ SvcMinAmountOut \/ AgentAmountsOut

SpecQuote == InitQuote /\ [][NextQuote]_vars

-----------------------------------------------------------------------------
(* The fee parameters of a transaction: maxPriorityFeePerGas, maxFeePerGas *)

\* Largest gas price the node reports (wei); the priority fee it suggests is
\* part of the gas price
MaxGasPrice == 4
\* responses that reach the main agent in one behaviour, whoever sent them
MaxArrivals == 3

\* priority_fee_multiplier of the services' swap functions, as decimals n/d;
\* the default is 1.5
DefaultPriorityMultiplier == <<3, 2>>
PriorityMultipliers == {<<1, 1>>, DefaultPriorityMultiplier, <<2, 1>>, <<5, 2>>, <<10, 1>>}

\* The transactions each code path builds
BuildsOf(entry) ==
    CASE entry = "svc_usdc" -> {"approve_permit2", "swap"}
      [] entry = "agent_usdc" -> {"approve_permit2", "approve_router", "swap"}
      [] OTHER -> {"swap"}

FeeRequest(entry, kind, mult) ==
    [pc |-> "in", entry |-> entry, kind |-> kind,
     priority_fee_multiplier |-> mult,
     gas_price |-> 0, max_priority_fee |-> 0,
     maxPriorityFeePerGas |-> 0, maxFeePerGas |-> 0]

\* Only the swap functions of the services take a priority_fee_multiplier
FeeRequests ==
    {FeeRequest(e, "swap", m) : e \in Services, m \in PriorityMultipliers}
    \cup {FeeRequest(e, k, DefaultPriorityMultiplier) :
             e \in Entries, k \in {"approve_permit2", "approve_router"}}
    \cup {FeeRequest(e, "swap", DefaultPriorityMultiplier) : e \in Agents}

InitFees ==
    /\ txs = <<>>
    /\ permit2Allow = 0
    /\ routerAllow = 0
    /\ ethBal = 0
    /\ usdcBal = 0
    /\ proc = [p \in Procs |-> Idle]
    /\ calls = 0
    /\ blockNumber = 0
    /\ tracker = NotTracking
    /\ quote = NoQuote
    /\ cycle = NoCycle
    /\ finder = NoFinder
    /\ reward = NoReward
    /\ fees \in {f \in FeeRequests : f.kind \in BuildsOf(f.entry)}

\* web3.eth.gas_price and web3.eth.max_priority_fee, as the node reports them
ObserveFees ==
    /\ fees.pc = "in"
    /\ \E g \in 1..MaxGasPrice : \E t \in 0..g :
          fees' = [fees EXCEPT !.pc = "observed", !.gas_price = g,
                               !.max_priority_fee = t]
    /\ UNCHANGED <<Ledger, proc, calls, tracker, quote, cycle, finder, reward>>

\* int(priority_fee * priority_fee_multiplier)
ScaledPriorityFee(priority_fee, mult) ==
    ToInt(FMul(FromInt(priority_fee), FromDecimal(mult[1], mult[2])))

\* "maxPriorityFeePerGas" and "maxFeePerGas" of the transaction parameters
BuildFees ==
    LET base_fee == fees.gas_price
        priority_fee == fees.max_priority_fee
    IN
    /\ fees.pc = "observed"
    /\ fees' = [fees EXCEPT
          !.pc = "built",
          !.maxPriorityFeePerGas =
              CASE fees.kind = "approve_permit2" -> priority_fee * 2
                [] fees.kind = "swap" /\ fees.entry \in Services ->
                     ScaledPriorityFee(priority_fee, fees.priority_fee_multiplier)
                [] OTHER -> priority_fee,
          !.maxFeePerGas =
              IF fees.kind = "approve_permit2" THEN base_fee * 3 ELSE base_fee * 2]
    /\ UNCHANGED <<Ledger, proc, calls, tracker, quote, cycle, finder, reward>>

NextFees == ObserveFees \/ BuildFees

SpecFees == InitFees /\ [][NextFees]_vars

-----------------------------------------------------------------------------
(* One analysis cycle: the main agent and the coin, news, fear-and-greed and *)
(* reasoning agents it asks in turn.  cycle.net holds the messages under way, *)
(* cycle.log what the main agent has logged, cycle.printed what it printed.   *)

\* AgentState() of the main agent
AgentState ==
    [network |-> "bitcoin", coin_information |-> "None",
     cryptonews_info |-> "None", fgi_data |-> "None",
     investor_type |-> "None", risk_strategy |-> "None"]

\* What the user types at the three prompts, and the values of the enums
BlockchainType == {"ethereum", "base", "bitcoin", "matic-network"}
InvestorType == {"long-term", "short-term", "speculate"}
RiskStrategy == {"conservative", "balanced", "aggressive", "speculative"}
BlockchainInputs == BlockchainType \cup {"solana"}
InvestorInputs == InvestorType \cup {"day-trader"}
RiskInputs == RiskStrategy \cup {"reckless"}

\* Texts the language model answers with, as words; a failed query is the
\* text of its error
LlmAnswers == { <<"BUY">>, <<"sell">>, <<"Hold">>, <<"SELL", "or", "BUY">>,
                <<"wait">> }
LlmErrors == { <<"Invalid", "API", "key">>, <<"API", "returned", "error:", "SELL">> }

UpperWord(w) ==
    CASE w = "sell" -> "SELL" [] w = "Hold" -> "HOLD" [] w = "or" -> "OR"
      [] w = "wait" -> "WAIT" [] OTHER -> w

\* "word" in text
Has(text, word) == \E k \in DOMAIN text : text[k] = word

\* ASI1Service.extract_trading_signal: response.upper(), BUY before SELL
\* before HOLD
extract_trading_signal(response) ==
    LET response_upper == [k \in DOMAIN response |-> UpperWord(response[k])] IN
    IF Has(response_upper, "BUY") THEN "BUY"
    ELSE IF Has(response_upper, "SELL") THEN "SELL"
    ELSE IF Has(response_upper, "HOLD") THEN "HOLD"
    ELSE "UNKNOWN"

\* handle_asi1_response: SELL before BUY, anything else is HOLD
SignalOf(decision) ==
    IF Has(decision, "SELL") THEN "SELL"
    ELSE IF Has(decision, "BUY") THEN "BUY"
    ELSE "HOLD"

Msg(type, body) == [type |-> type, body |-> body]

\* a main agent that asks for the fear and greed index before the news
NextRequestNewsLast(response) ==
    CASE response = "CoinResponse" -> "FGIRequest"
      [] response = "FGIResponse" -> "CryptonewsRequest"
      [] OTHER -> "ASI1Request"

\* The request each handler of the main agent sends on the response it got
NextRequest(response) ==
    CASE response = "CoinResponse" -> "CryptonewsRequest"
      [] response = "CryptonewsResponse" -> "FGIRequest"
      [] OTHER -> "ASI1Request"

InitCycle ==
    /\ txs = <<>>
    /\ permit2Allow = 0
    /\ routerAllow = 0
    /\ ethBal = 0
    /\ usdcBal = 0
    /\ proc = [p \in Procs |-> Idle]
    /\ calls = 0
    /\ blockNumber = 0
    /\ tracker = NotTracking
    /\ quote = NoQuote
    /\ fees = NoFees
    /\ finder = NoFinder
    /\ reward = NoReward
    /\ cycle = [pc |-> "ready", net |-> {}, log |-> <<>>, printed |-> <<>>,
                state |-> AgentState]

OutsideCycle == <<Ledger, proc, calls, tracker, quote, fees, finder, reward>>

\* ctx.send(destination, message) of the main agent followed by its log line;
\* if ctx.send raises, the handler raises AgentCommunicationError
MainSends(c, type, body, delivered) ==
    IF delivered
    THEN [c EXCEPT !.net = @ \cup {Msg(type, body)},
                   !.log = Append(@, <<"Sent", type>>)]
    ELSE c

\* sys.exit(1) at a prompt
Exited(c) == [c EXCEPT !.pc = "exited"]

\* check_coin, run by the interval timer: the blockchain prompt and the
\* CoinRequest
check_coin ==
    /\ cycle.pc = "ready"
    /\ \E chain_input \in BlockchainInputs, delivered \in BOOLEAN :
          cycle' =
            IF chain_input \notin BlockchainType THEN Exited(cycle)
            ELSE MainSends([cycle EXCEPT !.pc = "running",
                                         !.state.network = chain_input],
                           "CoinRequest", chain_input, delivered)
    /\ UNCHANGED OutsideCycle

\* A handler of the main agent takes the message m: its log line, the state
\* it keeps
Received(m, field) ==
    [cycle EXCEPT !.net = @ \ {m},
                  !.log = Append(@, <<"Received", m.type>>),
                  !.state = [@ EXCEPT ![field] = m.body]]

\* handle_coin_response
handle_coin_response ==
    /\ cycle.pc = "running"
    /\ \E m \in cycle.net, delivered \in BOOLEAN :
          /\ m.type = "CoinResponse"
          /\ cycle' = MainSends(Received(m, "coin_information"),
                                NextRequest(m.type), "limit 1", delivered)
    /\ UNCHANGED OutsideCycle

\* handle_cryptonews_response
handle_cryptonews_response ==
    /\ cycle.pc = "running"
    /\ \E m \in cycle.net, delivered \in BOOLEAN :
          /\ m.type = "CryptonewsResponse"
          /\ cycle' = MainSends(Received(m, "cryptonews_info"),
                                NextRequest(m.type), "limit 1", delivered)
    /\ UNCHANGED OutsideCycle

\* handle_fgi_response: the investor and risk prompts, the prompt for the
\* reasoning agent
handle_fgi_response ==
    /\ cycle.pc = "running"
    /\ \E m \in cycle.net, delivered \in BOOLEAN,
          investor_input \in InvestorInputs, risk_input \in RiskInputs :
          /\ m.type = "FGIResponse"
          /\ LET c == Received(m, "fgi_data") IN
             cycle' =
               IF investor_input \notin InvestorType THEN Exited(c)
               ELSE IF risk_input \notin RiskStrategy
                    THEN Exited([c EXCEPT !.state.investor_type = investor_input])
                    ELSE MainSends([c EXCEPT !.state.investor_type = investor_input,
                                             !.state.risk_strategy = risk_input],
                                   NextRequest(m.type), c.state.network, delivered)
    /\ UNCHANGED OutsideCycle

\* handle_asi1_response: the signal is printed
handle_asi1_response ==
    /\ cycle.pc = "running"
    /\ \E m \in cycle.net :
          /\ m.type = "ASI1Response"
          /\ cycle' = [cycle EXCEPT
                !.net = @ \ {m},
                !.log = Append(@, <<"Received", m.type>>),
                !.printed = Append(@, SignalOf(m.body))]
    /\ UNCHANGED OutsideCycle

\* A helper agent answers the request m: the answer if it got one and the
\* send went through, else the fallback of its except branch if that send
\* went through, else nothing
Answered(m, type, answer, fallback, ok, d1, d2) ==
    [cycle EXCEPT !.net =
        (@ \ {m}) \cup (IF ok /\ d1 THEN {Msg(type, answer)}
                        ELSE IF d2 THEN {Msg(type, fallback)}
                        ELSE {})]

\* CoinInfoAgent.handle_coin_request
handle_coin_request ==
    /\ \E m \in cycle.net, ok, d1, d2 \in BOOLEAN :
          /\ m.type = "CoinRequest"
          /\ cycle' = Answered(m, "CoinResponse", m.body, "Unknown", ok, d1, d2)
    /\ UNCHANGED OutsideCycle

\* CryptoNewsAgent.handle_news_request
handle_news_request ==
    /\ \E m \in cycle.net, ok, d1, d2 \in BOOLEAN :
          /\ m.type = "CryptonewsRequest"
          /\ cycle' = Answered(m, "CryptonewsResponse", "news", "error", ok, d1, d2)
    /\ UNCHANGED OutsideCycle

\* FearGreedIndexAgent.handle_fgi_request
handle_fgi_request ==
    /\ \E m \in cycle.net, ok, d1, d2 \in BOOLEAN :
          /\ m.type = "FGIRequest"
          /\ cycle' = Answered(m, "FGIResponse", "success", "error", ok, d1, d2)
    /\ UNCHANGED OutsideCycle

\* ASI1ReasoningAgent.handle_reasoning_request: the signal extracted from the
\* model's answer, or "ERROR: " and the text of the error
handle_reasoning_request ==
    /\ \E m \in cycle.net, d1, d2 \in BOOLEAN :
          /\ m.type = "ASI1Request"
          /\ \/ \E response \in LlmAnswers :
                   cycle' = Answered(m, "ASI1Response",
                                     <<extract_trading_signal(response)>>,
                                     <<"ERROR:", "send">>, TRUE, d1, d2)
             \/ \E e \in LlmErrors :
                   cycle' = Answered(m, "ASI1Response", <<>>,
                                     <<"ERROR:">> \o e, FALSE, d1, d2)
    /\ UNCHANGED OutsideCycle

NextCycle ==
    \/ check_coin
    \/ handle_coin_request
    \/ handle_coin_response
    \/ handle_news_request
    \/ handle_cryptonews_response
    \/ handle_fgi_request
    \/ handle_fgi_response
    \/ handle_reasoning_request
    \/ handle_asi1_response

SpecCycle == InitCycle /\ [][NextCycle]_vars

\* The handlers of the main agent are registered for a message type alone:
\* whoever knows the agent's address, a helper or not, can send it a
\* response, at any time and in any order
ResponseTypes == {"CoinResponse", "CryptonewsResponse", "FGIResponse",
                  "ASI1Response"}

InitCycleOpen ==
    /\ txs = <<>>
    /\ permit2Allow = 0
    /\ routerAllow = 0
    /\ ethBal = 0
    /\ usdcBal = 0
    /\ proc = [p \in Procs |-> Idle]
    /\ calls = 0
    /\ blockNumber = 0
    /\ tracker = NotTracking
    /\ quote = NoQuote
    /\ fees = NoFees
    /\ finder = NoFinder
    /\ reward = NoReward
    /\ cycle = [pc |-> "ready", net |-> {}, log |-> <<>>, printed |-> <<>>,
                state |-> AgentState, arrivals |-> 0]

\* A response reaches the main agent
ResponseArrives ==
    /\ cycle.pc # "exited"
    /\ cycle.arrivals < MaxArrivals
    /\ \E type \in ResponseTypes :
          cycle' = [cycle EXCEPT
             !.arrivals = @ + 1,
             !.net = @ \cup {Msg(type, IF type = "ASI1Response"
                                       THEN <<"SELL">> ELSE "data")}]
    /\ UNCHANGED OutsideCycle

\* The main agent alone, its helpers and everybody else being the senders
NextCycleOpen ==
    \/ check_coin
    \/ handle_coin_response
    \/ handle_cryptonews_response
    \/ handle_fgi_response
    \/ handle_asi1_response
    \/ ResponseArrives

SpecCycleOpen == InitCycleOpen /\ [][NextCycleOpen]_vars

-----------------------------------------------------------------------------
(* The Swapfinder agent *)

\* the hardcoded agents of the fallback
SellAgentAddress == "agent1qfrhxny23vz62v5tr20qnmnjujq8k5t0mxgwdxfap945922t9v4ugqtqkea"
BuyAgentAddress == "agent1qgv9k947c5m04tmsqa9x2fnmuavjx9wz5pnclkr9cnafra7aym48g6qqajy"
\* another agent the search may list
OtherAgentAddress == "agent1other"
None == "None"

\* data.get("agents", []): the addresses of the agents found, in order
AgentLists == {<<>>, <<SellAgentAddress>>, <<OtherAgentAddress, BuyAgentAddress>>,
               <<BuyAgentAddress, SellAgentAddress>>}
\* query_llm(prompt): the addresses its text contains
AiResponses == {{}, {SellAgentAddress}, {BuyAgentAddress},
                {SellAgentAddress, BuyAgentAddress}}
\* response.status_code
StatusCodes == {200, 500}

\* the first agent of the list whose address the AI response contains
RECURSIVE FirstNamed(_, _)
FirstNamed(agents, ai_response) ==
    IF agents = <<>> THEN None
    ELSE IF Head(agents) \in ai_response THEN Head(agents)
    ELSE FirstNamed(Tail(agents), ai_response)

\* search_swap_agent; raised: requests.post or query_llm raised
search_swap_agent(blockchain, signal, status_code, agents, ai_response, raised) ==
    IF raised THEN None
    ELSE IF status_code # 200 THEN None
    ELSE IF agents = <<>> THEN None
    ELSE IF FirstNamed(agents, ai_response) # None
         THEN FirstNamed(agents, ai_response)
    ELSE IF Lower(blockchain) = Base /\ Lower(signal) = <<"s","e","l","l">>
         THEN SellAgentAddress
    ELSE IF Lower(blockchain) = Base /\ Lower(signal) = <<"b","u","y">>
         THEN BuyAgentAddress
    ELSE None

Senders == {"alice", "bob"}

\* A SwapRequest at the Swapfinder agent
FinderRequest(sender, h) ==
    [pc |-> "received", sender |-> sender, blockchain |-> h[1],
     signal |-> h[2], agent_address |-> None, forwarded |-> <<>>,
     sent |-> <<>>, exc |-> "none"]

InitFinder ==
    /\ txs = <<>>
    /\ permit2Allow = 0
    /\ routerAllow = 0
    /\ ethBal = 0
    /\ usdcBal = 0
    /\ proc = [p \in Procs |-> Idle]
    /\ calls = 0
    /\ blockNumber = 0
    /\ tracker = NotTracking
    /\ quote = NoQuote
    /\ fees = NoFees
    /\ cycle = NoCycle
    /\ reward = NoReward
    /\ finder \in {FinderRequest(s, h) : s \in Senders, h \in Heads}

OutsideFinder == <<Ledger, proc, calls, tracker, quote, fees, cycle, reward>>

\* BaseAgent.send_message of the Swapfinder agent: the message is handed to
\* ctx.send, which delivers it or raises (CommunicationError)
FinderSend(f, to, status, delivered, next) ==
    [f EXCEPT !.sent = Append(@, [to |-> to, status |-> status,
                                  delivered |-> delivered]),
              !.pc = IF delivered THEN next ELSE "except"]

\* handle_swap_request, "Search for appropriate swap agent"
FinderSearch ==
    /\ finder.pc = "received"
    /\ \E status_code \in StatusCodes, agents \in AgentLists,
          ai_response \in AiResponses, raised \in BOOLEAN :
         finder' = [finder EXCEPT
            !.pc = "searched",
            !.agent_address = search_swap_agent(finder.blockchain, finder.signal,
                                 status_code, agents, ai_response, raised)]
    /\ UNCHANGED OutsideFinder

\* "if not agent_address": the error response and return
FinderRefuse ==
    /\ finder.pc = "searched"
    /\ finder.agent_address = None
    /\ \E d \in BOOLEAN :
         finder' = FinderSend(finder, finder.sender, "error", d, "done")
    /\ UNCHANGED OutsideFinder

\* "Forward the request to the chosen agent"
FinderForward ==
    /\ finder.pc = "searched"
    /\ finder.agent_address # None
    /\ \E d \in BOOLEAN :
         finder' = [finder EXCEPT
            !.pc = IF d THEN "forwarded" ELSE "except",
            !.forwarded = IF d THEN Append(@, finder.agent_address) ELSE @]
    /\ UNCHANGED OutsideFinder

\* the sender is told that the request was forwarded
FinderInform ==
    /\ finder.pc = "forwarded"
    /\ \E d \in BOOLEAN :
         finder' = FinderSend(finder, finder.sender, "pending", d, "done")
    /\ UNCHANGED OutsideFinder

\* the except branch: one error response; if its send raises as well,
\* CommunicationError leaves the handler
FinderExcept ==
    /\ finder.pc = "except"
    /\ \E d \in BOOLEAN :
         finder' = [FinderSend(finder, finder.sender, "error", d, "done")
                       EXCEPT !.pc = "done",
                              !.exc = IF d THEN "none" ELSE "CommunicationError"]
    /\ UNCHANGED OutsideFinder

NextFinder ==
    \/ FinderSearch
    \/ FinderRefuse
    \/ FinderForward
    \/ FinderInform
    \/ FinderExcept

SpecFinder == InitFinder /\ [][NextFinder]_vars

-----------------------------------------------------------------------------
(* The reward agent *)

\* Amounts of atestfet, as <<thousand millions, units>>: 10^18 is beyond the
\* integers of the model checker
AMOUNT == <<1000000000, 0>>
DENOM == "atestfet"
NoCoins == <<0, 0>>

\* agent_balance <= 0
NotPositive(balance) == balance[1] <= 0 /\ balance[2] <= 0

\* f"{amount}{denom}": the digits of the amount, then the denomination
CoinText(amount, denom) == amount \o <<denom>>

\* str(self.agent.wallet.address())
WalletAddress == "fetch1reward"

\* tx_resp.events of the transactions a TransactionInfo may name: with a
\* coin_received event (its receiver and its amount, a text) or without
CoinReceived(receiver, amount) ==
    [coin_received |-> [receiver |-> receiver, amount |-> amount]]
TxEvents ==
    {CoinReceived(r, CoinText(a, d)) :
        r \in {WalletAddress, "fetch1other"},
        a \in {AMOUNT, <<999999999, 999999999>>, <<1000000000, 1>>},
        d \in {DENOM, "nanomobx"}}
    \cup {[message |-> "send"]}

\* a check of the receiver alone
ReceiverVerified(coin_received) == coin_received.receiver = WalletAddress

\* "Verify transaction"
expected_amount == CoinText(AMOUNT, DENOM)
TransactionVerified(coin_received) ==
    /\ coin_received.receiver = WalletAddress
    /\ coin_received.amount = expected_amount

\* A TransactionInfo at the reward agent, naming a transaction with the
\* events ev
RewardMessage(sender, ev) ==
    [pc |-> "received", sender |-> sender, events |-> ev, status |-> "none",
     stored |-> FALSE, sent |-> <<>>, stake_called |-> FALSE,
     staked |-> <<>>, exc |-> "none"]

InitReward ==
    /\ txs = <<>>
    /\ permit2Allow = 0
    /\ routerAllow = 0
    /\ ethBal = 0
    /\ usdcBal = 0
    /\ proc = [p \in Procs |-> Idle]
    /\ calls = 0
    /\ blockNumber = 0
    /\ tracker = NotTracking
    /\ quote = NoQuote
    /\ fees = NoFees
    /\ cycle = NoCycle
    /\ finder = NoFinder
    /\ reward \in {RewardMessage(s, ev) : s \in Senders, ev \in TxEvents}

OutsideReward == <<Ledger, proc, calls, tracker, quote, fees, cycle, finder>>

\* BaseAgent.send_message of the reward agent: PaymentReceived(status) is
\* handed to ctx.send, which delivers it or raises (CommunicationError)
RewardSend(r, status, delivered, next) ==
    [r EXCEPT !.sent = Append(@, [to |-> r.sender, status |-> status,
                                  delivered |-> delivered]),
              !.pc = IF delivered THEN next ELSE "except"]

\* wait_for_tx_to_complete and the check of the coin_received event; a
\* transaction that is not found in time raises, as does one without the
\* event (KeyError)
RewardVerify ==
    /\ reward.pc = "received"
    /\ \E completed \in BOOLEAN :
         reward' =
           IF ~completed \/ "coin_received" \notin DOMAIN reward.events
           THEN [reward EXCEPT !.pc = "except"]
           ELSE [reward EXCEPT
                   !.pc = "store",
                   !.status = IF TransactionVerified(reward.events.coin_received)
                              THEN "success" ELSE "failure"]
    /\ UNCHANGED OutsideReward

\* get_balance (which swallows its errors) and ctx.storage.set
RewardStore ==
    /\ reward.pc = "store"
    /\ \E written \in BOOLEAN :
         reward' = [reward EXCEPT !.pc = IF written THEN "confirm" ELSE "except",
                                  !.stored = written]
    /\ UNCHANGED OutsideReward

\* "Send confirmation"
RewardConfirm ==
    /\ reward.pc = "confirm"
    /\ \E d \in BOOLEAN :
         reward' = RewardSend(reward, reward.status, d,
                              IF reward.status = "success" THEN "stake" ELSE "done")
    /\ UNCHANGED OutsideReward

\* the reward agent's balance when stake_tokens queries it
Balances == {NoCoins, AMOUNT}
\* outcomes of stake_tokens: the balance query raises; fewer than three
\* validators are listed (validators[2]) or delegate_tokens raises; the
\* delegation is sent and waiting for it or the summary raises; all is well
StakeOutcomes == {"no balance", "not delegated", "delegated then raised", "ok"}

\* stake_tokens, called for status "success"
stake_tokens ==
    /\ reward.pc = "stake"
    /\ \E agent_balance \in Balances, outcome \in StakeOutcomes :
         LET r == [reward EXCEPT !.stake_called = TRUE] IN
         reward' =
           IF outcome = "no balance" THEN [r EXCEPT !.pc = "except"]
           ELSE IF NotPositive(agent_balance) THEN [r EXCEPT !.pc = "done"]
           ELSE IF outcome = "not delegated" THEN [r EXCEPT !.pc = "except"]
           ELSE [r EXCEPT !.staked = Append(@, agent_balance),
                          !.pc = IF outcome = "ok" THEN "done" ELSE "except"]
    /\ UNCHANGED OutsideReward

\* the except branch: PaymentReceived(status=f"Error: {e}"); if its send
\* raises, CommunicationError leaves the handler
RewardExcept ==
    /\ reward.pc = "except"
    /\ \E d \in BOOLEAN :
         reward' = [RewardSend(reward, "Error", d, "done")
                       EXCEPT !.pc = "done",
                              !.exc = IF d THEN "none" ELSE "CommunicationError"]
    /\ UNCHANGED OutsideReward

NextReward ==
    \/ RewardVerify
    \/ RewardStore
    \/ RewardConfirm
    \/ stake_tokens
    \/ RewardExcept

SpecReward == InitReward /\ [][NextReward]_vars

-----------------------------------------------------------------------------
(* Properties *)

\* The transactions call number n has handed to the ledger
TxsOf(n) == {i \in TxIds : txs[i].call = n}

\* The calls in progress or ended
Active == {p \in Procs : proc[p].entry # "none"}

\* C1: an approval transaction is submitted only when the allowance the same
\* swap attempt has read for the approved spender is below the required
\* allowance; a USDC->ETH swap started with a sufficient allowance submits no
\* approval transaction.
C1_ApprovalOnlyWhenAllowanceLow ==
    \A i \in TxIds :
        txs[i].kind \in Approvals =>
            txs[i].seen # Unread /\ txs[i].seen < txs[i].amount

\* C2: at most one approval transaction per (owner, token, spender) is
\* unconfirmed at any time: while one is pending, a further call submits no
\* second one.
C2_AtMostOnePendingApproval ==
    \A k \in Approvals :
        Cardinality({i \in TxIds : txs[i].kind = k /\ txs[i].status = "pending"}) <= 1

\* C3: the nonces of the transactions the signer has submitted are pairwise
\* distinct and strictly increasing in submission order, covering exactly
\* [start, start + N).
C3_NoncesStrictlyIncreasing ==
    /\ \A i, j \in TxIds : i < j => txs[i].nonce < txs[j].nonce
    /\ {txs[i].nonce : i \in TxIds} = StartNonce..(StartNonce + Len(txs) - 1)

\* C4: a swap transaction is submitted only if every approval transaction of
\* the same call was confirmed; a call whose approval failed to submit,
\* reverted or timed out submits no swap transaction.
C4_NoSwapAfterFailedApproval ==
    \A i, j \in TxIds :
        (/\ txs[i].kind = "swap"
         /\ txs[j].kind \in Approvals
         /\ txs[i].call = txs[j].call) => txs[j].status = "success"

\* C5: a caller receives Success only for a swap transaction that reached
\* Confirmed: never for one that is still pending or that reverted.
C5_SuccessOnlyIfConfirmed ==
    \A p \in Active :
        /\ proc[p].status = "success" => txs[proc[p].hash].status = "success"
        /\ \A k \in DOMAIN proc[p].responses :
              LET r == proc[p].responses[k] IN
              (r.status = "success" /\ r.delivered) =>
                  txs[r.hash].status = "success"

\* C6: a swap call that has ended while its submitted swap transaction has no
\* terminal receipt reports TimedOut.
C6_TimedOutWithoutReceipt ==
    \A p \in Active :
        (/\ proc[p].pc = "done"
         /\ proc[p].hash # 0
         /\ txs[proc[p].hash].status \notin Mined) => proc[p].status = "TimedOut"

\* C7: a request whose amount is <= 0 performs no ledger I/O at all, through
\* the services and through the agents.
C7_NoIoForNonPositiveAmount ==
    \A p \in Active :
        proc[p].amount <= 0 => ~proc[p].io /\ TxsOf(proc[p].call) = {}

\* C8: a request whose slippage is outside [0, 10000) basis points fails
\* before any approval or swap transaction is submitted.
C8_NoTxForSlippageOutOfRange ==
    \A p \in Active :
        (proc[p].bps < 0 \/ proc[p].bps >= BpsDen) =>
            /\ TxsOf(proc[p].call) = {}
            /\ proc[p].pc = "done" => proc[p].status = "error"

\* C9: a request for more than the signer's balance of the input token
\* submits neither an approval nor a swap transaction, in both directions,
\* through the services and through the agents.
C9_NoTxForInsufficientBalance ==
    \A p \in Active :
        LET balance == IF proc[p].entry \in {"svc_eth", "agent_eth"}
                       THEN ethBal ELSE usdcBal
        IN  proc[p].amount > balance => TxsOf(proc[p].call) = {}

\* C10: a swap agent executes a swap only for a request whose blockchain is
\* 'base' and whose signal is its own direction, both compared without regard
\* to case; any other request is answered with error responses only and
\* submits no transaction.
C10_AgentServesOwnRequestsOnly ==
    \A p \in Active :
        LET c == proc[p]
            own == /\ Lower(c.blockchain) = <<"b","a","s","e">>
                   /\ Lower(c.signal) = IF c.entry = "agent_eth"
                                        THEN <<"s","e","l","l">>
                                        ELSE <<"b","u","y">>
            refused == /\ c.pc = "done"
                       /\ c.responses # <<>>
                       /\ c.responses[1].err = "unsupported"
                       /\ \A k \in DOMAIN c.responses :
                             c.responses[k].status = "error"
                       /\ TxsOf(c.call) = {}
                       /\ ~c.io
        IN  (c.entry \in Agents /\ c.pc # "handle") => (refused <=> ~own)

\* An agent has executed the swap of a request spelled in upper case
C10_Witness ==
    \E p \in Active :
        /\ proc[p].entry = "agent_eth"
        /\ proc[p].blockchain = <<"B","A","S","E">>
        /\ proc[p].signal = <<"S","E","L","L">>
        /\ \E i \in TxsOf(proc[p].call) : txs[i].kind = "swap"
        /\ proc[p].responses # <<>>

\* floor(a * b / c) and the remainder, within the integers' range
RECURSIVE MulDiv(_, _, _)
MulDiv(a, b, c) ==
    IF b = 0 THEN <<0, 0>>
    ELSE LET h == MulDiv(a, b \div 2, c)
             q2 == 2 * h[1] + ((2 * h[2]) \div c)
             r2 == (2 * h[2]) % c
         IN  IF b % 2 = 0 THEN <<q2, r2>>
             ELSE <<q2 + (a \div c) + ((r2 + (a % c)) \div c), (r2 + (a % c)) % c>>

\* a <= b on floats
FLe(a, b) == a.m = 0 \/ (b.m # 0 /\ (a.e < b.e \/ (a.e = b.e /\ a.m <= b.m)))

\* The real number amount * rate * (10000 - bps) / 10000 (amount / rate when
\* USDC is sold) in base units of the token bought, rounded down
ExactMinAmountOut(q) ==
    LET price == IF q.entry \in Services THEN ServiceEthPrice ELSE AgentEthPrice
        keep == IF q.entry \in Services THEN BpsDen - q.bps ELSE AgentKeepBps
        num == IF SellsEth(q.entry) THEN price * 10^UsdcDecimals ELSE 10^EthDecimals
        den == IF SellsEth(q.entry) THEN BpsDen ELSE price * BpsDen
    IN  MulDiv(q.amount[1] * keep, num, den)[1] \div q.amount[2]

\* C11: for every valid request with a positive amount, the minimum output is
\* at most the estimated output, both are strictly positive, and so is the
\* min_amount_out in base units that is encoded into the swap.
C11_MinimumPositiveAndBelowEstimate ==
    quote.pc = "out" =>
        /\ FLe(quote.min, quote.est)
        /\ quote.est.m > 0
        /\ quote.min.m > 0
        /\ quote.min_amount_out > 0

\* C12: for a slippage in [0, 10000) basis points the encoded min_amount_out
\* is estimated_output * (10000 - bps) / 10000 in base units rounded down:
\* never above the exact value, below it by less than one base unit.
C12_MinimumRoundedDown ==
    quote.pc = "out" => quote.min_amount_out = ExactMinAmountOut(quote)

\* C13: 0.5 of the native asset sold at rate 2500 with 1% slippage: the input
\* is 0.5 * 10^EthDecimals base units, the estimated output 1250, the minimum
\* output 1237.5, in base units 1250 * 10^UsdcDecimals and
\* 1237.5 * 10^UsdcDecimals; by the agent's swap function and by the
\* service's estimate at that rate.
C13_HalfEthAtRate2500 ==
    LET half == FromDecimal(1, 2)
        svc == estimate_usdc_output(half, FromInt(2500), FromDecimal(100, 10000))
        min_units == 12375 * 10^(UsdcDecimals - 1)
        est_units == 1250 * 10^UsdcDecimals
        in_units == 5 * 10^(EthDecimals - 1)
    IN
    /\ svc.est = FromInt(1250)
    /\ svc.min = FromDecimal(2475, 2)
    /\ ToUnits(svc.est, UsdcDecimals) = est_units
    /\ ToUnits(svc.min, UsdcDecimals) = min_units
    /\ to_wei(1, 2) = in_units
    /\ (quote.pc = "out" /\ quote.entry = "agent_eth" /\ quote.amount = <<1, 2>>) =>
          /\ quote.amount_in = in_units
          /\ quote.est = FromInt(1250)
          /\ quote.min = FromDecimal(2475, 2)
          /\ ToUnits(quote.est, UsdcDecimals) = est_units
          /\ quote.min_amount_out = min_units

\* The agent has quoted the sale of 0.5 ETH
C13_Witness ==
    /\ quote.pc = "out"
    /\ quote.entry = "agent_eth"
    /\ quote.amount = <<1, 2>>
    /\ quote.min_amount_out > 0

\* C14: the rate source failing, the quote is produced from the static
\* estimate and marked stale: the swap is not failed by it, and the result
\* returned to the caller carries the stale mark.
C14_StaleQuoteMarkedInResult ==
    \A p \in Active :
        (proc[p].entry \in Services /\ proc[p].pc = "done" /\ proc[p].hash # 0) =>
            /\ proc[p].status = "pending"
            /\ "stale" \in DOMAIN proc[p].result
            /\ proc[p].result.stale = TRUE

\* C15: every transaction the engine builds takes its nonce from the
\* pending-inclusive transaction count of the signer, so that it is larger
\* than the nonce of every transaction of the signer still unmined.
C15_NonceFromPendingCount ==
    [][\A p \in Procs :
          (/\ proc[p].pc \in {"apnonce", "rnonce", "nonce"}
           /\ proc'[p].pc \in {"apsend", "rsend", "send"})
          => /\ proc'[p].nonce = PendingCount
             /\ \A i \in TxIds :
                   txs[i].status = "pending" => txs[i].nonce < proc'[p].nonce]_vars

\* C16: a swap attempt that finds the allowance insufficient submits exactly
\* one approval transaction, for the maximum allowance 2^256 - 1: no attempt
\* submits two approvals or an approval of a smaller amount.
C16_OneApprovalOfMaxAllowance ==
    \A p \in Active :
        LET approvals == {i \in TxsOf(proc[p].call) : txs[i].kind \in Approvals}
            swapped == \E i \in TxsOf(proc[p].call) : txs[i].kind = "swap"
        IN  /\ Cardinality(approvals) <= 1
            /\ \A i \in approvals : txs[i].amount = MaxUint
            /\ (swapped /\ proc[p].seen # Unread /\ proc[p].seen < MaxUint)
                  => Cardinality(approvals) = 1

\* C17: the swap transaction of an attempt that submitted an approval
\* transaction is submitted only after that approval transaction was
\* confirmed (mined with a success receipt), never before.
C17_SwapAfterApprovalConfirmed ==
    [][(/\ Len(txs') = Len(txs) + 1
        /\ txs'[Len(txs')].kind = "swap")
       => \A j \in TxIds :
             (txs[j].kind \in Approvals /\ txs[j].call = txs'[Len(txs')].call)
                => txs[j].status = "success"]_vars

\* The polls get_transaction_status has answered, in order
Polls == {k \in DOMAIN tracker.results : TRUE}

\* C18: get_transaction_status maps every ledger state to a tracker state: no
\* receipt gives 'pending' with 0 confirmations; a success receipt gives
\* 'confirmed' exactly when current block - receipt block >= 1, otherwise
\* 'pending_confirmation'; 'confirmed' is never reported without a success
\* receipt and at least 1 confirmation.
C18_StatusIsTotalMapping ==
    \A k \in Polls :
        LET o == tracker.results[k] IN
        /\ ~o.raised
        /\ o.receipt = NoReceipt =>
              o.ret = [status |-> "pending", confirmations |-> 0]
        /\ (o.receipt # NoReceipt /\ o.receipt.status = 1) =>
              /\ o.ret.confirmations = o.head - o.receipt.blockNumber
              /\ o.ret.status = IF o.head - o.receipt.blockNumber >= 1
                                THEN "confirmed" ELSE "pending_confirmation"
        /\ o.ret.status = "confirmed" =>
              /\ o.receipt # NoReceipt
              /\ o.receipt.status = 1
              /\ o.head - o.receipt.blockNumber >= 1

Terminal == {"confirmed", "failed", "TimedOut"}

C21_SingleAttempt ==
    [][Len(txs') = Len(txs) + 1 =>
          LET t == txs'[Len(txs')]
              earlier == {i \in TxIds : txs[i].call = t.call}
          IN  /\ \A i \in earlier : txs[i].kind # "swap"
              /\ \A i \in earlier : txs[i].status # "reverted"
              /\ \A p \in Procs :
                    proc[p].call = t.call => proc[p].status # "error"]_vars

\* the commands of the data of a transaction, in order
Ops(d) == [k \in DOMAIN d |-> d[k].op]

\* C22: the data of every swap transaction follows the direction: selling
\* ETH encodes the wrap before the exchange (path WETH -> USDC), buying ETH
\* encodes the exchange (path USDC -> WETH) before the unwrap; no swap
\* transaction has them in the other order or lacks the wrap or unwrap.
C22_EncodedSequenceFollowsDirection ==
    \A i \in TxIds :
        txs[i].kind = "swap" =>
            IF txs[i].entry \in {"svc_eth", "agent_eth"}
            THEN /\ Ops(txs[i].data) = <<"wrap_eth", "v2_swap_exact_in">>
                 /\ txs[i].data[2].path = <<"WETH", "USDC">>
                 /\ txs[i].value = txs[i].amount
            ELSE /\ Ops(txs[i].data) = <<"v2_swap_exact_in", "unwrap_weth">>
                 /\ txs[i].data[1].path = <<"USDC", "WETH">>
                 /\ txs[i].value = 0

\* The agent buying ETH has sent its swap after both approvals
C22_Witness ==
    \E i \in TxIds :
        /\ txs[i].kind = "swap"
        /\ txs[i].entry = "agent_usdc"
        /\ Len(txs[i].data) = 2

\* the kind of error a failure of the model originates from
OriginKind(err) ==
    CASE err \in {"amount", "unsupported", "encode", "zerodiv"} -> "validation"
      [] err = "insufficient" -> "insufficient_funds"
      [] err = "approve" -> "approval"
      [] err = "timeout" -> "timeout"
      [] OTHER -> "transport"

\* C23: no error is swallowed: every failed swap surfaces to the caller a
\* result that carries the originating error kind (validation, insufficient
\* funds, approval, revert, timeout, transport), so that failures of
\* different kinds differ in the kind the caller gets.
C23_ErrorKindSurfaced ==
    \A p \in Active :
        (proc[p].pc = "done" /\ proc[p].status = "error") =>
            proc[p].exc = OriginKind(proc[p].err)

\* a call that ended as failed: the service raised, or the last response of
\* the agent is an error response
FailedCall(c) ==
    /\ c.pc = "done"
    /\ \/ c.status = "error"
       \/ c.responses # <<>> /\ c.responses[Len(c.responses)].status = "error"

\* C24: when a swap call ends as failed after a transaction of the call
\* (approval or swap) was submitted, the failure returned to the caller
\* carries the hash of a transaction of the call; a failure without a hash
\* means that the call submitted no transaction.
C24_FailureCarriesHash ==
    \A p \in Active :
        (FailedCall(proc[p]) /\ TxsOf(proc[p].call) # {}) =>
            proc[p].failhash \in TxsOf(proc[p].call)

\* C25: the steps of one swap run in the order validate, balance check,
\* approval (until confirmed), quote, build, submit: no transaction is
\* submitted before validation and the balance check have passed, and the
\* quote is obtained after the last approval step.
C25_StepsInFixedOrder ==
    \A p \in Active :
        LET s == proc[p].steps IN
        /\ \A k \in DOMAIN s :
              s[k] \in {"approve", "submit"} =>
                  /\ \E i \in 1..(k - 1) : s[i] = "validate"
                  /\ \E j \in 1..(k - 1) : s[j] = "balance"
        /\ \A k, l \in DOMAIN s :
              (s[k] = "quote" /\ s[l] \in {"approve", "approved"}) => l < k

\* C26: every ensure_permit2_approval reads the on-chain allowance within
\* the call and decides on that value alone: whatever the owner did to the
\* allowance between two swaps, the approve-or-skip decision of a swap is
\* the one the allowance on the chain at its read calls for.
C26_FreshAllowanceDecides ==
    [][\A p \in Procs :
          (proc[p].pc = "allow" /\ proc'[p].steps # proc[p].steps) =>
              /\ proc'[p].seen = permit2Allow
              /\ (proc'[p].pc = "apnonce") <=> (permit2Allow < MaxUint)]_vars

\* The first swap found the allowance sufficient and approved nothing; the
\* owner revoked the allowance; the second swap has submitted an approval
C26_Witness ==
    /\ \E i \in TxIds : txs[i].call = 1 /\ txs[i].kind = "swap"
    /\ \A i \in TxIds : txs[i].call = 1 => txs[i].kind # "approve_permit2"
    /\ \E i \in TxIds :
          txs[i].call = 2 /\ txs[i].kind = "approve_permit2" /\ txs[i].seen = 0

\* C27: every built transaction, swap and approval, has its max priority fee
\* equal to the observed priority fee times the priority multiplier (in whole
\* wei) and its max fee equal to the observed base fee times the fee
\* multiplier, both multipliers within 1.0 to 2.0 unless the caller passed
\* another one.
C27_FeesFromMultipliers ==
    fees.pc = "built" =>
        LET configured == fees.kind = "swap" /\ fees.entry \in Services
            m == fees.priority_fee_multiplier
        IN  /\ IF configured
               THEN fees.maxPriorityFeePerGas =
                        (fees.max_priority_fee * m[1]) \div m[2]
               ELSE /\ fees.max_priority_fee <= fees.maxPriorityFeePerGas
                    /\ fees.maxPriorityFeePerGas <= 2 * fees.max_priority_fee
            /\ fees.gas_price <= fees.maxFeePerGas
            /\ fees.maxFeePerGas <= 2 * fees.gas_price

\* C30: every transaction built satisfies maxFeePerGas >= maxPriorityFeePerGas,
\* for every gas price and priority fee observed and every
\* priority_fee_multiplier the caller passes.
C30_MaxFeeCoversPriorityFee ==
    fees.pc = "built" => fees.maxFeePerGas >= fees.maxPriorityFeePerGas

\* C29: with wait_for_approval=False swap_usdc_to_eth does not wait for the
\* receipt of the approval transaction but goes on to build and submit the
\* swap; with wait_for_approval=True the swap is submitted only once the
\* approval is mined.
C29_WaitsOnlyWhenAsked ==
    \A p \in Active :
        LET c == proc[p] IN
        c.entry = "svc_usdc" =>
            /\ ~c.wfa =>
                  /\ c.pc \notin {"apwait", "apwait2"}
                  /\ \A k \in DOMAIN c.steps : c.steps[k] # "approved"
            /\ c.wfa =>
                  \A i, j \in TxsOf(c.call) :
                      (txs[i].kind = "swap" /\ txs[j].kind \in Approvals) =>
                          txs[j].status \in Mined

\* the log of a complete analysis cycle
CycleLog ==
    << <<"Sent", "CoinRequest">>, <<"Received", "CoinResponse">>,
       <<"Sent", "CryptonewsRequest">>, <<"Received", "CryptonewsResponse">>,
       <<"Sent", "FGIRequest">>, <<"Received", "FGIResponse">>,
       <<"Sent", "ASI1Request">>, <<"Received", "ASI1Response">> >>

RequestedUnits(q) == (q.amount[1] * 10^DecimalsIn(q.entry)) \div q.amount[2]

\* C31: in every ETH->USDC swap the transaction value, the wrapped amount
\* and the input amount of the exchange are the same number of wei, the
\* requested amount; in every USDC->ETH swap the value is 0 and the input of
\* the exchange is the requested USDC amount in base units.
C31_AmountsOfSwapAgree ==
    quote.pc = "out" =>
        IF SellsEth(quote.entry)
        THEN /\ quote.value = RequestedUnits(quote)
             /\ quote.wrapped = RequestedUnits(quote)
             /\ quote.exchange_in = RequestedUnits(quote)
        ELSE /\ quote.value = 0
             /\ quote.wrapped = 0
             /\ quote.exchange_in = RequestedUnits(quote)

\* the responses of a handler that reached the sender
Delivered(r) == r.delivered
SentTo(c) == SelectSeq(c.responses, Delivered)
\* the swap transaction a call submitted, 0 if none
SubmittedSwap(c) ==
    IF \E i \in TxsOf(c.call) : txs[i].kind = "swap"
    THEN CHOOSE i \in TxsOf(c.call) : txs[i].kind = "swap"
    ELSE 0

\* C32: for every SwapRequest a swap agent has handled, the sender got exactly
\* one SwapResponse: 'success' with the transaction hash if and only if a swap
\* transaction was submitted, 'error' otherwise; never 'error' for a request
\* whose swap transaction was submitted, and never two responses.
C32_ExactlyOneResponse ==
    \A p \in Active :
        LET c == proc[p] IN
        (c.entry \in Agents /\ c.pc = "done") =>
            /\ Len(SentTo(c)) = 1
            /\ SentTo(c)[1].status \in {"success", "error"}
            /\ SentTo(c)[1].status = "success" <=> SubmittedSwap(c) # 0
            /\ SentTo(c)[1].status = "success" =>
                   SentTo(c)[1].hash = SubmittedSwap(c)

\* the responses of the Swapfinder agent that reached the sender of the request
ReachedSender(f) ==
    {k \in DOMAIN f.sent : f.sent[k].to = f.sender /\ f.sent[k].delivered}

\* C33: for every SwapRequest the Swapfinder agent has handled, the request
\* was forwarded to at most one swap agent and the sender got exactly one
\* SwapResponse: 'pending' only if the request was forwarded, 'error' only if
\* it was not forwarded.
C33_ForwardedOrRefused ==
    finder.pc = "done" =>
        /\ Len(finder.forwarded) <= 1
        /\ Cardinality(ReachedSender(finder)) = 1
        /\ \A k \in ReachedSender(finder) :
              /\ finder.sent[k].status = "pending" => finder.forwarded # <<>>
              /\ finder.sent[k].status = "error" => finder.forwarded = <<>>

\* C34: the main agent has sent an ASI1Request only when coin information,
\* crypto news and Fear & Greed data have all been received (all three state
\* fields set), whatever the order and the sender of the responses.
C34_ReasoningOnlyWithAllData ==
    (cycle.pc # "none" /\ Has(cycle.log, <<"Sent", "ASI1Request">>)) =>
        /\ cycle.state.coin_information # "None"
        /\ cycle.state.cryptonews_info # "None"
        /\ cycle.state.fgi_data # "None"

\* the PaymentReceived messages that reached the sender of the TransactionInfo
Confirmations(r) ==
    {k \in DOMAIN r.sent : r.sent[k].to = r.sender /\ r.sent[k].delivered}

\* C35: for every TransactionInfo the reward agent has handled, it sent
\* exactly one PaymentReceived to the sender, whether the transaction check,
\* the storage write or the staking succeeded or failed.
C35_OnePaymentReceived ==
    reward.pc = "done" => Cardinality(Confirmations(reward)) = 1

\* the transaction pays the expected amount to the agent's wallet
PaysReward(ev) ==
    /\ "coin_received" \in DOMAIN ev
    /\ ev.coin_received.receiver = WalletAddress
    /\ ev.coin_received.amount = <<1000000000, 0, "atestfet">>

\* C36: the reward agent stakes tokens only after it has verified a
\* transaction whose receiver is its own wallet and whose amount is the
\* expected amount and denomination, and only after
\* PaymentReceived(status='success') was sent for it; a transaction that
\* fails the check never triggers staking.
C36_StakesOnlyVerifiedPayments ==
    (reward.pc # "none" /\ (reward.pc = "stake" \/ reward.stake_called
                                \/ reward.staked # <<>>)) =>
        /\ PaysReward(reward.events)
        /\ \E k \in Confirmations(reward) : reward.sent[k].status = "success"

\* Tokens were staked for a verified payment
C36_Witness ==
    /\ reward.pc = "done"
    /\ reward.staked # <<>>
    /\ PaysReward(reward.events)

\* C37: get_usdc_to_eth_quote submits no transaction, and its is_approved
\* flag agrees with the approval decision of the swap: when a quote reported
\* is_approved true and the following swap_usdc_to_eth reads the allowance
\* the quote has read, that swap submits no approval transaction.
C37_QuoteAgreesWithSwap ==
    \A q, p \in Procs :
        proc[q].entry = "svc_usdc_quote" =>
            /\ TxsOf(proc[q].call) = {}
            /\ (/\ proc[q].status = "quoted"
                /\ proc[q].result.is_approved
                /\ proc[p].entry = "svc_usdc"
                /\ proc[p].call > proc[q].call
                /\ proc[p].seen = proc[q].seen)
               => \A i \in TxsOf(proc[p].call) : txs[i].kind \notin Approvals
====
